---- MODULE Spec2Model ----
(***************************************************************************)
(* home-mcp: the command dispatch and safe invocation layer of             *)
(* src/src/index.ts (runAppleScript, runShortcut and the                   *)
(* CallToolRequestSchema handler).                                         *)
(*                                                                         *)
(* Text.  A JavaScript string is modelled as a sequence of tokens.  Every  *)
(* character a caller, a subprocess or the shell can tell apart (quotes,   *)
(* blanks, shell metacharacters, letters of caller-supplied names) is a    *)
(* one-character token; a fixed fragment of a template literal of the      *)
(* source ("Unknown tool: ", "shortcuts", ...) is kept as one token.       *)
(* String concatenation and template interpolation are \o.                 *)
(***************************************************************************)
EXTENDS Integers, Sequences, FiniteSets, TLC

\* ------------------------------------------------------------------------
\* Bounds of the model
\* ------------------------------------------------------------------------
\* longest caller-supplied string (scene, room, shortcutName, action)
MaxStrLen == 2
\* longest string handed to the quoting engine on its own
MaxQuoteLen == 3
\* longest name / input handed to runShortcut on its own
MaxArgLen == 2

\* ------------------------------------------------------------------------
\* JavaScript values
\* ------------------------------------------------------------------------
\* the JavaScript value undefined (an absent argument, an absent property)
Undefined == [type |-> "undefined"]

\* a JavaScript string whose text is s
Str(s) == [type |-> "string", chars |-> s]

\* a JavaScript number (integral)
Num(n) == [type |-> "number", num |-> n]

\* an arguments object holding the given properties; a property that is
\* absent reads as undefined, as does one whose value is undefined
Obj(props) == [type |-> "object", props |-> props]

\* the arguments object {}
EmptyObject == [type |-> "object"]

\* property access obj.f on an object
Get(obj, f) ==
    IF "props" \in DOMAIN obj /\ f \in DOMAIN obj.props THEN obj.props[f] ELSE Undefined

\* JavaScript truthiness: undefined, the empty string and 0 are falsy
\* (`input ? ... : ''`, `room ? ... : ...`, `err.stderr || err.message`)
Truthy(v) ==
    CASE v.type = "string" -> v.chars # <<>>
      [] v.type = "number" -> v.num # 0
      [] v.type = "object" -> TRUE
      [] OTHER -> FALSE

RECURSIVE NatDigits(_)
\* decimal digits of a natural number, most significant first
NatDigits(n) ==
    LET d == <<"0", "1", "2", "3", "4", "5", "6", "7", "8", "9">>[(n % 10) + 1]
    IN  IF n < 10 THEN <<d>> ELSE Append(NatDigits(n \div 10), d)

\* String(n) of an integral number
NumToText(n) == IF n < 0 THEN <<"-">> \o NatDigits(0 - n) ELSE NatDigits(n)

\* template-literal interpolation `${v}`
Interp(v) ==
    CASE v.type = "string" -> v.chars
      [] v.type = "number" -> NumToText(v.num)
      [] v.type = "object" -> <<"[object Object]">>
      [] OTHER -> <<"undefined">>

\* strings over alphabet A of length at most n
StringsUpTo(A, n) == UNION {[1..k -> A] : k \in 0..n}

\* ------------------------------------------------------------------------
\* Quoting engine: the inline `.replace(/'/g, "'\"'\"'")` wrapped in '...'
\* ------------------------------------------------------------------------
RECURSIVE EscapeWithBackslash(_)
\* a quoting engine that escapes a single quote with a backslash
EscapeWithBackslash(s) ==
    IF s = <<>> THEN <<>>
    ELSE (IF Head(s) = "'" THEN <<"\\", "'">> ELSE <<Head(s)>>)
         \o EscapeWithBackslash(Tail(s))

RECURSIVE EscapeSingleQuotes(_)
\* s.replace(/'/g, "'\"'\"'"): every single quote becomes  ' " ' " '
EscapeSingleQuotes(s) ==
    IF s = <<>> THEN <<>>
    ELSE (IF Head(s) = "'" THEN <<"'", "\"", "'", "\"", "'">> ELSE <<Head(s)>>)
         \o EscapeSingleQuotes(Tail(s))

\* '${ s.replace(...) }'
Quoted(s) == <<"'">> \o EscapeSingleQuotes(s) \o <<"'">>

\* ------------------------------------------------------------------------
\* Command builders
\* ------------------------------------------------------------------------
\* the fixed script of home_open and home_get_status
ActivateScript ==
    <<"tell", " ", "application", " ", "\"", "Home", "\"", " ", "to", " ", "activate">>

\* a runAppleScript that passes the script without quotes
AppleScriptCommandUnquoted(script) == <<"osascript", " ", "-e", " ">> \o script

\* runAppleScript: `osascript -e '${script.replace(...)}'`
AppleScriptCommand(script) == <<"osascript", " ", "-e", " ">> \o Quoted(script)

\* a runShortcut that wraps the name in quotes without escaping it
ShortcutCommandRawName(name, input) ==
    <<"shortcuts", " ", "run", " ", "'">> \o name.chars \o <<"'">>
        \o (IF Truthy(input) THEN <<" ", "-i", " ">> \o Quoted(input.chars) ELSE <<>>)

\* runShortcut: `shortcuts run '${escapedName}'${inputPart}`
\* (name is a string here; name.replace on undefined is RunShortcutFault)
ShortcutCommand(name, input) ==
    <<"shortcuts", " ", "run", " ">> \o Quoted(name.chars)
        \o (IF Truthy(input) THEN <<" ", "-i", " ">> \o Quoted(input.chars) ELSE <<>>)

\* execSync('shortcuts list', ...)
ListCommand == <<"shortcuts", " ", "list">>

\* maxBuffer: 50 * 1024 * 1024
MaxBufferBytes == 50 * 1024 * 1024

\* the options object runAppleScript and runShortcut give execSync
HelperOptions == [encoding |-> "utf-8", maxBuffer |-> Num(MaxBufferBytes)]

\* the options object home_list_shortcuts gives execSync
ListOptions == [encoding |-> "utf-8", maxBuffer |-> Undefined]

\* ------------------------------------------------------------------------
\* Text helpers (String.prototype.trim / split / toLowerCase / includes /
\* Array.prototype.join)
\* ------------------------------------------------------------------------
WhiteSpace == {" ", "\n", "\t"}

RECURSIVE TrimStart(_)
TrimStart(s) ==
    IF s # <<>> /\ Head(s) \in WhiteSpace THEN TrimStart(Tail(s)) ELSE s

RECURSIVE TrimEnd(_)
TrimEnd(s) ==
    IF s # <<>> /\ s[Len(s)] \in WhiteSpace THEN TrimEnd(SubSeq(s, 1, Len(s) - 1)) ELSE s

\* s.trim()
Trim(s) == TrimEnd(TrimStart(s))

UpperCase ==
    <<"A", "B", "C", "D", "E", "F", "G", "H", "I", "J", "K", "L", "M",
      "N", "O", "P", "Q", "R", "S", "T", "U", "V", "W", "X", "Y", "Z">>

LowerCase ==
    <<"a", "b", "c", "d", "e", "f", "g", "h", "i", "j", "k", "l", "m",
      "n", "o", "p", "q", "r", "s", "t", "u", "v", "w", "x", "y", "z">>

ToLowerChar(c) ==
    IF \E i \in 1..Len(UpperCase) : UpperCase[i] = c
    THEN LowerCase[CHOOSE i \in 1..Len(UpperCase) : UpperCase[i] = c]
    ELSE c

\* s.toLowerCase()
ToLowerCase(s) == [i \in 1..Len(s) |-> ToLowerChar(s[i])]

\* s.includes(sub)
Includes(s, sub) ==
    \E i \in 0..(Len(s) - Len(sub)) : SubSeq(s, i + 1, i + Len(sub)) = sub

RECURSIVE SplitFrom(_, _, _)
\* the pieces of s[i..] between newlines, cur being the piece under way
SplitFrom(s, i, cur) ==
    IF i > Len(s) THEN <<cur>>
    ELSE IF s[i] = "\n" THEN <<cur>> \o SplitFrom(s, i + 1, <<>>)
    ELSE SplitFrom(s, i + 1, Append(cur, s[i]))

\* s.split('\n')
SplitLines(s) == SplitFrom(s, 1, <<>>)

RECURSIVE JoinLines(_)
\* lines.join('\n')
JoinLines(lines) ==
    IF lines = <<>> THEN <<>>
    ELSE IF Len(lines) = 1 THEN lines[1]
    ELSE lines[1] \o <<"\n">> \o JoinLines(Tail(lines))

\* ------------------------------------------------------------------------
\* Process invoker: execSync and the catch blocks of the two helpers
\* ------------------------------------------------------------------------
\* execSync returned the subprocess's output
ExecOk(stdout) == [ok |-> TRUE, stdout |-> stdout]

\* execSync threw: err.stderr (a string or undefined) and err.message
ExecFail(stderr, message) == [ok |-> FALSE, stderr |-> stderr, message |-> message]

\* `err.message || err.stderr`
DiagnosticMessageFirst(err) ==
    IF err.message # <<>> THEN err.message ELSE err.stderr.chars

\* `err.stderr || err.message`
Diagnostic(err) == IF Truthy(err.stderr) THEN err.stderr.chars ELSE err.message

\* a call that returned a value / a call that threw an Error
Returned(value) == [threw |-> FALSE, value |-> value]
Threw(message) == [threw |-> TRUE, message |-> message]

\* runAppleScript, given what execSync did
RunAppleScriptResult(o) ==
    IF o.ok THEN Returned(Trim(o.stdout))
    ELSE Threw(<<"AppleScript error: ">> \o Diagnostic(o))

\* runShortcut, given what execSync did
RunShortcutResult(o) ==
    IF o.ok THEN Returned(Trim(o.stdout))
    ELSE Threw(<<"Shortcut error: ">> \o Diagnostic(o))

\* the TypeError of undefined.replace(...), which has no stderr
ReplaceTypeError ==
    ExecFail(Undefined, <<"Cannot read properties of undefined (reading 'replace')">>)

\* runShortcut(undefined, ...): name.replace throws inside the try, before
\* execSync is reached, and the catch rethrows it
RunShortcutFault == Threw(<<"Shortcut error: ">> \o Diagnostic(ReplaceTypeError))

\* ------------------------------------------------------------------------
\* Operation dispatcher: the switch of the CallToolRequestSchema handler
\* ------------------------------------------------------------------------
\* the ten case labels of the switch
KnownTools ==
    {"home_open", "home_run_scene", "home_control_device", "home_list_shortcuts",
     "home_lights_on", "home_lights_off", "home_set_thermostat", "home_lock_doors",
     "home_unlock_doors", "home_get_status"}

\* { content: [{ type: "text", text }] }
TextResponse(text) == [content |-> <<[type |-> "text", text |-> text]>>]

\* { content: [{ type: "text", text }], isError: true }
ErrorResponse(text) ==
    [content |-> <<[type |-> "text", text |-> text]>>, isError |-> TRUE]

\* an unknown-tool answer that forgets the error flag
UnknownToolNoFlag(name) == TextResponse(<<"Unknown tool: ", name>>)

\* default: branch of the switch
UnknownToolResponse(name) == ErrorResponse(<<"Unknown tool: ", name>>)

\* an outer catch that prints the error object, not its message
OuterCatchStringOfError(message) == ErrorResponse(<<"Error: ", "Error: ">> \o message)

\* the catch of the outer try
OuterCatchResponse(message) == ErrorResponse(<<"Error: ">> \o message)

\* the cases that read a property of args before their own try: with args
\* undefined the read throws a TypeError that only the outer catch sees
ReadsArgs ==
    {"home_run_scene", "home_control_device", "home_list_shortcuts",
     "home_lights_on", "home_lights_off", "home_set_thermostat"}

\* message of the TypeError of reading args when args is undefined
ArgsTypeError(name) ==
    CASE name = "home_run_scene" ->
            <<"Cannot read properties of undefined (reading 'scene')">>
      [] name = "home_control_device" ->
            <<"Cannot destructure property 'shortcutName' of 'args' as it is undefined.">>
      [] name = "home_list_shortcuts" ->
            <<"Cannot read properties of undefined (reading 'filter')">>
      [] name \in {"home_lights_on", "home_lights_off"} ->
            <<"Cannot read properties of undefined (reading 'room')">>
      [] name = "home_set_thermostat" ->
            <<"Cannot destructure property 'temperature' of 'args' as it is undefined.">>

\* the words On / Off and on / off of the two lights cases
LightsWord(name) == IF name = "home_lights_on" THEN "On" ELSE "Off"
LightsLower(name) == IF name = "home_lights_on" THEN "on" ELSE "off"

\* a shortcut name built from the room trimmed and in lower case
LightsShortcutNameNormalised(name, room) ==
    IF Truthy(room)
    THEN ToLowerCase(Trim(Interp(room))) \o <<" ", "Lights", " ", LightsWord(name)>>
    ELSE <<"Lights", " ", LightsWord(name)>>

\* room ? `${room} Lights On` : 'Lights On'
LightsShortcutName(name, room) ==
    IF Truthy(room) THEN Interp(room) \o <<" ", "Lights", " ", LightsWord(name)>>
    ELSE <<"Lights", " ", LightsWord(name)>>

\* room ? `turn on ${room} lights` : 'turn on the lights'
LightsVoiceCommand(name, room) ==
    IF Truthy(room)
    THEN <<"turn", " ", LightsLower(name), " ">> \o Interp(room) \o <<" ", "lights">>
    ELSE <<"turn", " ", LightsLower(name), " ", "the", " ", "lights">>

\* `${temperature} degrees ${unit}`
TempStr(temperature, unit) ==
    Interp(temperature) \o <<" ", "degrees", " ">> \o Interp(unit)

\* the destructuring default `unit = 'fahrenheit'`: applies to undefined only
DefaultUnit(unit) == IF unit = Undefined THEN Str(<<"fahrenheit">>) ELSE unit

\* unit === 'fahrenheit' ? 'F' : 'C'
UnitLetterTestsFahrenheit(unit) == IF unit = Str(<<"fahrenheit">>) THEN "F" ELSE "C"

\* unit === 'celsius' ? 'C' : 'F'
UnitLetter(unit) == IF unit = Str(<<"celsius">>) THEN "C" ELSE "F"

\* the constants a case binds from args before its try (the ArgumentView)
ArgumentView(name, args) ==
    CASE name = "home_run_scene" -> [scene |-> Get(args, "scene")]
      [] name = "home_control_device" ->
            [shortcutName |-> Get(args, "shortcutName"), action |-> Get(args, "action")]
      [] name = "home_list_shortcuts" ->
            [filter |-> IF Get(args, "filter") = Undefined THEN Undefined
                        ELSE Str(ToLowerCase(Get(args, "filter").chars))]
      [] name \in {"home_lights_on", "home_lights_off"} ->
            [room |-> Get(args, "room"),
             command |-> LightsVoiceCommand(name, Get(args, "room"))]
      [] name = "home_set_thermostat" ->
            LET unit == DefaultUnit(Get(args, "unit"))
            IN  [temperature |-> Get(args, "temperature"),
                 unit |-> unit,
                 tempStr |-> TempStr(Get(args, "temperature"), unit)]
      [] OTHER -> [unused |-> TRUE]

\* the one call a case makes into the process boundary
Target(name, view) ==
    CASE name \in {"home_open", "home_get_status"} ->
            [helper |-> "runAppleScript", script |-> ActivateScript]
      [] name = "home_run_scene" ->
            [helper |-> "runShortcut", name |-> view.scene, input |-> Undefined]
      [] name = "home_control_device" ->
            [helper |-> "runShortcut", name |-> view.shortcutName, input |-> view.action]
      [] name = "home_list_shortcuts" -> [helper |-> "execSync"]
      [] name \in {"home_lights_on", "home_lights_off"} ->
            [helper |-> "runShortcut",
             name |-> Str(LightsShortcutName(name, view.room)), input |-> Undefined]
      [] name = "home_set_thermostat" ->
            [helper |-> "runShortcut",
             name |-> Str(<<"Set", " ", "Thermostat">>), input |-> Str(view.tempStr)]
      [] name = "home_lock_doors" ->
            [helper |-> "runShortcut",
             name |-> Str(<<"Lock", " ", "Doors">>), input |-> Undefined]
      [] name = "home_unlock_doors" ->
            [helper |-> "runShortcut",
             name |-> Str(<<"Unlock", " ", "Doors">>), input |-> Undefined]

\* the command line and options the call hands to execSync
Execution(target) ==
    CASE target.helper = "runAppleScript" ->
            [line |-> AppleScriptCommand(target.script), options |-> HelperOptions]
      [] target.helper = "runShortcut" ->
            [line |-> ShortcutCommand(target.name, target.input), options |-> HelperOptions]
      [] target.helper = "execSync" ->
            [line |-> ListCommand, options |-> ListOptions]

\* what the call gives back to the case, given what execSync did
CallResult(target, o) ==
    CASE target.helper = "runAppleScript" -> RunAppleScriptResult(o)
      [] target.helper = "runShortcut" -> RunShortcutResult(o)
      [] target.helper = "execSync" ->
            IF o.ok THEN Returned(o.stdout) ELSE Threw(o.message)

\* ------------------------------------------------------------------------
\* Result classifier / response builder: the return statements of the cases
\* ------------------------------------------------------------------------
\* the keywords of the unfiltered listing
HomeKeywords ==
    {<<"l", "i", "g", "h", "t">>, <<"h", "o", "m", "e">>, <<"s", "c", "e", "n", "e">>,
     <<"l", "o", "c", "k">>, <<"t", "h", "e", "r", "m", "o", "s", "t", "a", "t">>,
     <<"d", "o", "o", "r">>, <<"r", "o", "o", "m">>}

\* result.split('\n').filter(s => s.trim())
ShortcutLines(stdout) ==
    LET NonBlank(s) == Trim(s) # <<>>
    IN  SelectSeq(SplitLines(stdout), NonBlank)

\* a listing that applies the keywords to filtered lines as well
HomeRelatedKeywordsAlways(filter, stdout) ==
    LET MatchesKeyword(s) == \E k \in HomeKeywords : Includes(ToLowerCase(s), k)
        MatchesBoth(s) == MatchesKeyword(s) /\ Includes(ToLowerCase(s), filter.chars)
    IN  IF Truthy(filter) THEN SelectSeq(ShortcutLines(stdout), MatchesBoth)
        ELSE SelectSeq(ShortcutLines(stdout), MatchesKeyword)

\* a listing that matches lines as they are written, without lower-casing
HomeRelatedCaseSensitive(filter, stdout) ==
    LET MatchesFilter(s) == Includes(s, filter.chars)
        MatchesKeyword(s) == \E k \in HomeKeywords : Includes(s, k)
    IN  IF Truthy(filter) THEN SelectSeq(ShortcutLines(stdout), MatchesFilter)
        ELSE SelectSeq(ShortcutLines(stdout), MatchesKeyword)

\* the lines home_list_shortcuts keeps
HomeRelated(filter, stdout) ==
    LET MatchesFilter(s) == Includes(ToLowerCase(s), filter.chars)
        MatchesKeyword(s) == \E k \in HomeKeywords : Includes(ToLowerCase(s), k)
    IN  IF Truthy(filter) THEN SelectSeq(ShortcutLines(stdout), MatchesFilter)
        ELSE SelectSeq(ShortcutLines(stdout), MatchesKeyword)

\* a listing that answers an empty result with no content block
ListResponseEmptyContent(filter, stdout) ==
    LET homeRelated == HomeRelated(filter, stdout)
    IN  IF Len(homeRelated) = 0 THEN [content |-> <<>>]
        ELSE TextResponse(<<"Available Shortcuts:", "\n">> \o JoinLines(homeRelated))

\* a listing that flags an empty result as an error
ListResponseFlagsEmpty(filter, stdout) ==
    LET homeRelated == HomeRelated(filter, stdout)
    IN  IF Len(homeRelated) = 0
        THEN ErrorResponse(
                IF Truthy(filter) THEN <<"No shortcuts found matching: ">> \o filter.chars
                ELSE <<"No Home-related shortcuts found. Create Shortcuts in the Shortcuts app to control your Home devices.">>)
        ELSE TextResponse(<<"Available Shortcuts:", "\n">> \o JoinLines(homeRelated))

\* home_list_shortcuts when execSync returned
ListResponse(filter, stdout) ==
    LET homeRelated == HomeRelated(filter, stdout)
    IN  IF Len(homeRelated) = 0
        THEN TextResponse(
                IF Truthy(filter) THEN <<"No shortcuts found matching: ">> \o filter.chars
                ELSE <<"No Home-related shortcuts found. Create Shortcuts in the Shortcuts app to control your Home devices.">>)
        ELSE TextResponse(<<"Available Shortcuts:", "\n">> \o JoinLines(homeRelated))

\* ` in ${room}` or ''
InRoom(room) == IF Truthy(room) THEN <<" in ">> \o Interp(room) ELSE <<>>

\* a lights guidance that names the whole-house automation for every room
LightsGuidancePlainName(name, view) ==
    <<"To turn ", LightsLower(name), " lights">> \o InRoom(view.room)
        \o <<", create a ", "Shortcut named ", "\"">>
        \o LightsShortcutName(name, Undefined)
        \o <<"\"", " that controls your HomeKit lights.", "\n", "\n",
             "Alternatively, ", "you can say to Siri: ", "\"">>
        \o view.command \o <<"\"">>

\* the guidance text of the two lights cases
LightsGuidance(name, view) ==
    <<"To turn ", LightsLower(name), " lights">> \o InRoom(view.room)
        \o <<", create a ", "Shortcut named ", "\"">>
        \o LightsShortcutName(name, view.room)
        \o <<"\"", " that controls your HomeKit lights.", "\n", "\n",
             "Alternatively, ", "you can say to Siri: ", "\"">>
        \o view.command \o <<"\"">>

\* an open case that reports what osascript printed
OpenResponseEchoesOutput(result) ==
    IF result.threw THEN OuterCatchResponse(result.message)
    ELSE TextResponse(<<"Home app opened">> \o result.value)

\* case "home_open"
OpenResponse(result) ==
    IF result.threw THEN OuterCatchResponse(result.message)
    ELSE TextResponse(<<"Home app opened">>)

\* a scene case whose failure is a hard error
RunSceneHardError(view, result) ==
    IF result.threw
    THEN ErrorResponse(<<"To run scene ", "\"">> \o Interp(view.scene)
            \o <<"\"", ", please create a Shortcut with that name that activates the HomeKit scene.">>)
    ELSE TextResponse(<<"Activated scene: ">> \o Interp(view.scene))

\* case "home_run_scene"
RunSceneResponse(view, result) ==
    IF result.threw
    THEN TextResponse(<<"To run scene ", "\"">> \o Interp(view.scene)
            \o <<"\"", ", please create a Shortcut with that name that activates the HomeKit scene.">>)
    ELSE TextResponse(<<"Activated scene: ">> \o Interp(view.scene))

\* a device case that appends the action whenever it is not undefined
ControlDeviceSuffixWheneverGiven(view, result) ==
    IF result.threw
    THEN ErrorResponse(<<"Error running shortcut ", "\"">>
            \o Interp(view.shortcutName) \o <<"\"", ": ">> \o result.message)
    ELSE TextResponse(<<"Executed shortcut: ">> \o Interp(view.shortcutName)
            \o (IF view.action # Undefined
                THEN <<" with action: ">> \o Interp(view.action) ELSE <<>>))

\* a device case that drops the caught error's message
ControlDeviceNoDiagnostic(view, result) ==
    IF result.threw
    THEN ErrorResponse(<<"Error running shortcut ", "\"">>
            \o Interp(view.shortcutName) \o <<"\"">>)
    ELSE TextResponse(<<"Executed shortcut: ">> \o Interp(view.shortcutName)
            \o (IF Truthy(view.action)
                THEN <<" with action: ">> \o Interp(view.action) ELSE <<>>))

\* case "home_control_device"
ControlDeviceResponse(view, result) ==
    IF result.threw
    THEN ErrorResponse(<<"Error running shortcut ", "\"">>
            \o Interp(view.shortcutName) \o <<"\"", ": ">> \o result.message)
    ELSE TextResponse(<<"Executed shortcut: ">> \o Interp(view.shortcutName)
            \o (IF Truthy(view.action)
                THEN <<" with action: ">> \o Interp(view.action) ELSE <<>>))

\* case "home_list_shortcuts"
ListShortcutsResponse(view, result) ==
    IF result.threw
    THEN ErrorResponse(<<"Error listing shortcuts. Make sure Shortcuts app is available.">>)
    ELSE ListResponse(view.filter, result.value)

\* case "home_lights_on" and case "home_lights_off"
LightsResponse(name, view, result) ==
    IF result.threw THEN TextResponse(LightsGuidance(name, view))
    ELSE TextResponse(<<"Lights ", LightsLower(name)>> \o InRoom(view.room))

\* case "home_set_thermostat"
SetThermostatResponse(view, result) ==
    IF result.threw
    THEN TextResponse(<<"To set thermostat to ">> \o Interp(view.temperature)
            \o <<"°", UnitLetter(view.unit)>>
            \o <<", create a Shortcut named ", "\"", "Set", " ", "Thermostat", "\"",
                 " that controls your HomeKit thermostat.", "\n", "\n",
                 "Alternatively, you can say to Siri: ", "\"",
                 "Set the thermostat to ">>
            \o view.tempStr \o <<"\"">>)
    ELSE TextResponse(<<"Thermostat set to ">> \o Interp(view.temperature)
            \o <<"°", UnitLetter(view.unit)>>)

\* case "home_lock_doors"
LockDoorsResponse(result) ==
    IF result.threw
    THEN TextResponse(<<"To lock doors, create a Shortcut named ", "\"",
            "Lock", " ", "Doors", "\"", " that controls your HomeKit locks.",
            "\n", "\n", "Alternatively, you can say to Siri: ", "\"",
            "Lock all doors", "\"">>)
    ELSE TextResponse(<<"Doors locked">>)

\* case "home_unlock_doors"
UnlockDoorsResponse(result) ==
    IF result.threw
    THEN TextResponse(<<"To unlock doors, create a Shortcut named ", "\"",
            "Unlock", " ", "Doors", "\"", " that controls your HomeKit locks.",
            "\n", "\n", "Alternatively, you can say to Siri: ", "\"",
            "Unlock all doors", "\"">>)
    ELSE TextResponse(<<"Doors unlocked">>)

\* case "home_get_status"
GetStatusResponse(result) ==
    IF result.threw THEN OuterCatchResponse(result.message)
    ELSE TextResponse(<<"Home app opened. Note: HomeKit device status is not accessible via AppleScript. View status in the Home app.">>)

\* the response of a known tool, given what its one call did
Classify(name, view, result) ==
    CASE name = "home_open" -> OpenResponse(result)
      [] name = "home_run_scene" -> RunSceneResponse(view, result)
      [] name = "home_control_device" -> ControlDeviceResponse(view, result)
      [] name = "home_list_shortcuts" -> ListShortcutsResponse(view, result)
      [] name \in {"home_lights_on", "home_lights_off"} -> LightsResponse(name, view, result)
      [] name = "home_set_thermostat" -> SetThermostatResponse(view, result)
      [] name = "home_lock_doors" -> LockDoorsResponse(result)
      [] name = "home_unlock_doors" -> UnlockDoorsResponse(result)
      [] name = "home_get_status" -> GetStatusResponse(result)

\* ------------------------------------------------------------------------
\* Inputs the model draws from
\* ------------------------------------------------------------------------
\* characters of caller-supplied names in handler calls
NameAlphabet == {"A", "'", " "}

\* a string argument: absent, or any string up to MaxStrLen
OptStrings == {Undefined} \cup {Str(s) : s \in StringsUpTo(NameAlphabet, MaxStrLen)}

\* a filter argument
OptFilters ==
    {Undefined, Str(<<>>), Str(<<"O", "C">>), Str(<<"i", "s">>), Str(<<"z">>),
     Str(<<"o">>)}

\* a temperature argument
OptTemperatures == {Undefined, Num(0), Num(22), Num(72), Num(0 - 4), Num(105)}

\* a unit argument
OptUnits ==
    {Undefined, Str(<<"fahrenheit">>), Str(<<"celsius">>), Str(<<"kelvin">>), Str(<<>>)}

\* the arguments the transport can deliver for a request name
ArgumentsFor(name) ==
    {Undefined} \cup
    CASE name = "home_run_scene" -> {Obj([scene |-> s]) : s \in OptStrings}
      [] name = "home_control_device" ->
            {Obj([shortcutName |-> s, action |-> a]) : s \in OptStrings, a \in OptStrings}
      [] name = "home_list_shortcuts" -> {Obj([filter |-> f]) : f \in OptFilters}
      [] name \in {"home_lights_on", "home_lights_off"} ->
            {Obj([room |-> r]) : r \in OptStrings}
      [] name = "home_set_thermostat" ->
            {Obj([temperature |-> n, unit |-> u]) : n \in OptTemperatures, u \in OptUnits}
      [] name \in {"home_open", "home_get_status"} ->
            {EmptyObject} \cup {Obj([script |-> s]) : s \in OptStrings \ {Undefined}}
      [] OTHER -> {EmptyObject}

\* request names that are no case label (the switch compares with ===)
UnknownNames == {"not_a_real_tool", "HOME_OPEN", ""}

Requests ==
    {[name |-> n, args |-> a] : n \in KnownTools \cup UnknownNames, a \in {Undefined}}
    \cup UNION {{[name |-> n, args |-> a] : a \in ArgumentsFor(n)} :
                    n \in KnownTools \cup UnknownNames}

\* an output of `shortcuts list`
Catalogue ==
    <<"L", "o", "c", "k", "\n", "M", "i", "s", "c", "\n", "\n", " ", "\n",
      "D", "o", "o", "r", "\n">>

\* another one, with mixed case, surrounding blanks and no final newline
CatalogueMixed ==
    <<"H", "O", "M", "E", " ", "\n", "\t", "\n", "z", "o", "o", "\n",
      " ", "b", "e", "d", "R", "O", "O", "M">>

\* what a subprocess may write to its output
Stdouts(name) ==
    IF name = "home_list_shortcuts"
    THEN {<<>>, Catalogue, CatalogueMixed, <<"M", "i", "s", "c">>}
    ELSE {<<>>, <<" ", "o", "k", "\n">>}

\* what execSync can do: return the output, or throw an error with or
\* without an error-stream text
Outcomes(name) ==
    {ExecOk(s) : s \in Stdouts(name)}
    \cup {ExecFail(e, <<"Command failed">>) :
            e \in {Undefined, Str(<<>>), Str(<<"Permission", " ", "denied">>)}}

\* ------------------------------------------------------------------------
\* State
\* ------------------------------------------------------------------------
VARIABLES
    state,      \* position of the handler in the current call
    request,    \* request.params of the current call: name and arguments
    view,       \* the constants the case bound from the arguments
    executed,   \* the execSync calls of the current call, in order
    outcome,    \* what the last execSync did
    result,     \* what the helper call returned or threw
    response,   \* the ToolResponse returned
    responses,  \* number of responses returned for the current request
    helperRun,  \* a direct call of runAppleScript or runShortcut
    quoteRun,   \* a string put through the quoting engine
    earlier,    \* an observer's record of one earlier call: request, outcome, response
    pending     \* requests the transport has read and not yet handed to the handler

vars ==
    <<state, request, view, executed, outcome, result, response, responses,
      helperRun, quoteRun, earlier, pending>>

\* the variables of the direct helper calls
helperVars == <<helperRun, quoteRun>>

\* the variables outside the handler: a handler step touches none of them
outsideVars == <<helperRun, quoteRun, earlier, pending>>

\* the variables of the request handler
handlerVars ==
    <<state, request, view, executed, outcome, result, response, responses>>

\* not set yet in this call
Nothing == [type |-> "nothing"]

Init ==
    /\ state = "Idle"
    /\ request = Nothing
    /\ view = Nothing
    /\ executed = <<>>
    /\ outcome = Nothing
    /\ result = Nothing
    /\ response = Nothing
    /\ responses = 0
    /\ helperRun = Nothing
    /\ quoteRun = Nothing
    /\ earlier = Nothing
    /\ pending = <<>>

\* the handler is entered with a request: nothing else runs on the thread
StartCall(req) ==
    /\ state = "Idle"
    /\ state' = "Received"
    /\ request' = req
    /\ view' = Nothing
    /\ executed' = <<>>
    /\ outcome' = Nothing
    /\ result' = Nothing
    /\ response' = Nothing
    /\ responses' = 0

\* the transport hands a request to the handler
Receive(req) == StartCall(req) /\ UNCHANGED outsideVars

\* default: no case label matches
UnknownTool ==
    /\ state = "Received"
    /\ request.name \notin KnownTools
    /\ response' = UnknownToolResponse(request.name)
    /\ responses' = responses + 1
    /\ state' = "Responded"
    /\ UNCHANGED <<request, view, executed, outcome, result>>
    /\ UNCHANGED outsideVars

\* args is undefined and the case reads a property of it: the TypeError
\* leaves the switch and the outer catch answers
ArgsFault ==
    /\ state = "Received"
    /\ request.name \in ReadsArgs
    /\ request.args = Undefined
    /\ result' = Threw(ArgsTypeError(request.name))
    /\ response' = OuterCatchResponse(result'.message)
    /\ responses' = responses + 1
    /\ state' = "Responded"
    /\ UNCHANGED <<request, view, executed, outcome>>
    /\ UNCHANGED outsideVars

\* the case binds its constants from args
ExtractArgs ==
    /\ state = "Received"
    /\ request.name \in KnownTools
    /\ ~(request.name \in ReadsArgs /\ request.args = Undefined)
    /\ view' = ArgumentView(request.name, request.args)
    /\ state' = "ArgsExtracted"
    /\ UNCHANGED <<request, executed, outcome, result, response, responses>>
    /\ UNCHANGED outsideVars

\* runShortcut was given undefined as its name
NameIsUndefined(target) == target.helper = "runShortcut" /\ target.name = Undefined

\* runShortcut(undefined): throws before any command is built or run
BuildFault ==
    /\ state = "ArgsExtracted"
    /\ NameIsUndefined(Target(request.name, view))
    /\ result' = RunShortcutFault
    /\ state' = "Classified"
    /\ UNCHANGED <<request, view, executed, outcome, response, responses>>
    /\ UNCHANGED outsideVars

\* the command line is built and handed to execSync, which blocks
Invoke ==
    /\ state = "ArgsExtracted"
    /\ ~NameIsUndefined(Target(request.name, view))
    /\ executed' = Append(executed, Execution(Target(request.name, view)))
    /\ state' = "Invoked"
    /\ UNCHANGED <<request, view, outcome, result, response, responses>>
    /\ UNCHANGED outsideVars

\* a completion that runs a failed command once more
CompleteWithRetry(o) ==
    /\ state = "Invoked"
    /\ IF ~o.ok /\ Len(executed) < 2
       THEN /\ executed' = Append(executed, Execution(Target(request.name, view)))
            /\ UNCHANGED <<state, outcome, result>>
       ELSE /\ outcome' = o
            /\ result' = CallResult(Target(request.name, view), o)
            /\ state' = "Classified"
            /\ UNCHANGED executed
    /\ UNCHANGED <<request, view, response, responses>>
    /\ UNCHANGED outsideVars

\* execSync returns or throws, and the helper returns or rethrows
Complete(o) ==
    /\ state = "Invoked"
    /\ outcome' = o
    /\ result' = CallResult(Target(request.name, view), o)
    /\ state' = "Classified"
    /\ UNCHANGED <<request, view, executed, response, responses>>
    /\ UNCHANGED outsideVars

\* a handler that returns nothing when its command failed
RespondDroppingFailures ==
    /\ state = "Classified"
    /\ ~result.threw
    /\ response' = Classify(request.name, view, result)
    /\ responses' = responses + 1
    /\ state' = "Responded"
    /\ UNCHANGED <<request, view, executed, outcome, result>>
    /\ UNCHANGED outsideVars

\* a handler that keeps a response of an earlier call and returns it to
\* the next caller with another request
RespondFromEarlier ==
    /\ state = "Classified"
    /\ response' = IF earlier # Nothing /\ earlier.request # request
                   THEN earlier.response
                   ELSE Classify(request.name, view, result)
    /\ responses' = responses + 1
    /\ state' = "Responded"
    /\ UNCHANGED <<request, view, executed, outcome, result>>
    /\ UNCHANGED outsideVars

\* the case (or the outer catch) returns the response
Respond ==
    /\ state = "Classified"
    /\ response' = Classify(request.name, view, result)
    /\ responses' = responses + 1
    /\ state' = "Responded"
    /\ UNCHANGED <<request, view, executed, outcome, result>>
    /\ UNCHANGED outsideVars

\* the handler's frame is gone: every binding of the call (name, args, the
\* case's constants, the result) was local to it
EndCall ==
    /\ state = "Responded"
    /\ state' = "Idle"
    /\ request' = Nothing
    /\ view' = Nothing
    /\ executed' = <<>>
    /\ outcome' = Nothing
    /\ result' = Nothing
    /\ response' = Nothing
    /\ responses' = 0

\* the response has gone back to the transport; the handler is free again
\* and keeps nothing of the call
Return == EndCall /\ UNCHANGED outsideVars

Next ==
    \/ \E req \in Requests : Receive(req)
    \/ UnknownTool
    \/ ArgsFault
    \/ ExtractArgs
    \/ BuildFault
    \/ Invoke
    \/ \E o \in (IF state = "Invoked" THEN Outcomes(request.name) ELSE {}) : Complete(o)
    \/ Respond
    \/ Return

Spec == Init /\ [][Next]_vars

\* ------------------------------------------------------------------------
\* The handler under fair scheduling: the thread runs the handler's own
\* code whenever it can, and every launched command exits
\* ------------------------------------------------------------------------
\* a step of the handler's own code
HandlerStep ==
    UnknownTool \/ ArgsFault \/ ExtractArgs \/ BuildFault \/ Invoke \/ Respond

\* the launched command exits and execSync returns or throws
CommandExits ==
    \E o \in (IF state = "Invoked" THEN Outcomes(request.name) ELSE {}) : Complete(o)

SpecLive ==
    Init /\ [][Next]_vars /\ WF_vars(HandlerStep) /\ WF_vars(CommandExits)

\* ------------------------------------------------------------------------
\* A sequence of calls, one of the earlier ones remembered by an observer
\* ------------------------------------------------------------------------
\* requests of every kind: each operation, with and without its arguments,
\* and a name that is no operation
SampleRequests ==
    {[name |-> "home_open", args |-> Undefined],
     [name |-> "home_run_scene", args |-> Undefined],
     [name |-> "home_run_scene", args |-> Obj([scene |-> Undefined])],
     [name |-> "home_run_scene", args |-> Obj([scene |-> Str(<<"A">>)])],
     [name |-> "home_control_device",
      args |-> Obj([shortcutName |-> Str(<<"A">>), action |-> Str(<<"'">>)])],
     [name |-> "home_list_shortcuts", args |-> Obj([filter |-> Str(<<>>)])],
     [name |-> "home_list_shortcuts", args |-> Obj([filter |-> Str(<<"o">>)])],
     [name |-> "home_lights_on", args |-> Obj([room |-> Str(<<"A">>)])],
     [name |-> "home_lights_off", args |-> Obj([room |-> Undefined])],
     [name |-> "home_lights_off", args |-> Obj([room |-> Str(<<"A", "'">>)])],
     [name |-> "home_run_scene", args |-> Obj([scene |-> Str(<<"'", " ">>)])],
     [name |-> "home_set_thermostat",
      args |-> Obj([temperature |-> Num(22), unit |-> Str(<<"celsius">>)])],
     [name |-> "home_lock_doors", args |-> EmptyObject],
     [name |-> "home_unlock_doors", args |-> EmptyObject],
     [name |-> "home_get_status", args |-> Undefined],
     [name |-> "not_a_real_tool", args |-> Undefined]}

\* what an observer can note of the call that has just been answered
Observed == [request |-> request, outcome |-> outcome, response |-> response]

\* the call returns; the observer may note it in place of the call noted
\* before
ReturnObserved ==
    /\ EndCall
    /\ earlier' \in {earlier, Observed}
    /\ UNCHANGED <<helperVars, pending>>

InitCalls == Init

NextCalls ==
    \/ \E req \in SampleRequests : Receive(req)
    \/ UnknownTool
    \/ ArgsFault
    \/ ExtractArgs
    \/ BuildFault
    \/ Invoke
    \/ \E o \in (IF state = "Invoked" THEN Outcomes(request.name) ELSE {}) : Complete(o)
    \/ Respond
    \/ ReturnObserved

SpecCalls == InitCalls /\ [][NextCalls]_vars

\* ------------------------------------------------------------------------
\* Overlapping requests: the transport reads requests at any time, the
\* handler is entered when the thread is free
\* ------------------------------------------------------------------------
\* most requests read and not yet handled
MaxPending == 2

\* the JSON-RPC ids that tell the requests in flight apart
RequestIds == 1..(MaxPending + 1)

OverlapRequests ==
    {[name |-> "home_lock_doors", args |-> EmptyObject],
     [name |-> "home_run_scene", args |-> Undefined],
     [name |-> "home_run_scene", args |-> Obj([scene |-> Undefined])],
     [name |-> "not_a_real_tool", args |-> Undefined]}

\* the ids of the requests read and not yet answered
IdsInFlight ==
    {pending[i].id : i \in 1..Len(pending)}
        \cup (IF state = "Idle" THEN {} ELSE {request.id})

\* the transport reads a request from its input, whatever the handler is
\* doing
Deliver(req, id) ==
    /\ Len(pending) < MaxPending
    /\ id \notin IdsInFlight
    /\ pending' = Append(pending, [name |-> req.name, args |-> req.args, id |-> id])
    /\ UNCHANGED <<handlerVars, helperVars, earlier>>

\* a handler entered while execSync blocks
AcceptPreempting ==
    /\ pending # <<>>
    /\ state \in {"Idle", "Invoked"}
    /\ state' = "Received"
    /\ request' = Head(pending)
    /\ view' = Nothing
    /\ executed' = <<>>
    /\ outcome' = Nothing
    /\ result' = Nothing
    /\ response' = Nothing
    /\ responses' = 0
    /\ pending' = Tail(pending)
    /\ UNCHANGED <<helperVars, earlier>>

\* the handler is entered with the oldest request read: the handler has no
\* await and execSync blocks, so this happens only between calls
Accept ==
    /\ pending # <<>>
    /\ StartCall(Head(pending))
    /\ pending' = Tail(pending)
    /\ UNCHANGED <<helperVars, earlier>>

InitOverlap == Init

NextOverlap ==
    \/ \E req \in OverlapRequests, id \in RequestIds : Deliver(req, id)
    \/ Accept
    \/ UnknownTool
    \/ ArgsFault
    \/ ExtractArgs
    \/ BuildFault
    \/ Invoke
    \/ \E o \in (IF state = "Invoked" THEN Outcomes(request.name) ELSE {}) : Complete(o)
    \/ Respond
    \/ Return

SpecOverlap == InitOverlap /\ [][NextOverlap]_vars

\* ------------------------------------------------------------------------
\* The helpers called on their own
\* ------------------------------------------------------------------------
\* characters of a name or input given to runShortcut directly
ArgAlphabet == {"a", "'", ";", " "}

\* the grave accent (backquote) character, written by name because the
\* character itself cannot appear in a string of this module
Backtick == "<grave>"

\* characters of a string given to the quoting engine directly
QuoteAlphabet == {"a", " ", "'", "\"", Backtick, "$", ";", "|", "\n", "\\"}

HelperTargets ==
    {[helper |-> "runShortcut", name |-> n, input |-> i] :
        n \in {Undefined} \cup {Str(s) : s \in StringsUpTo(ArgAlphabet, MaxArgLen)},
        i \in {Undefined} \cup {Str(s) : s \in StringsUpTo(ArgAlphabet, MaxArgLen)}}
    \cup {[helper |-> "runAppleScript", script |-> s] :
            s \in {ActivateScript} \cup StringsUpTo(ArgAlphabet, MaxArgLen)}

InitHelper ==
    /\ Init!1 /\ Init!2 /\ Init!3 /\ Init!4 /\ Init!5 /\ Init!6 /\ Init!7 /\ Init!8
    /\ quoteRun = Nothing
    /\ earlier = Nothing /\ pending = <<>>
    /\ helperRun \in
        {[stage |-> "called", target |-> g, executed |-> <<>>,
          outcome |-> Nothing, result |-> Nothing] : g \in HelperTargets}

\* runShortcut(undefined, ...): throws without running anything
HelperFault ==
    /\ helperRun.stage = "called"
    /\ NameIsUndefined(helperRun.target)
    /\ helperRun' = [helperRun EXCEPT !.stage = "done", !.result = RunShortcutFault]
    /\ UNCHANGED <<handlerVars, quoteRun, earlier, pending>>

\* the helper builds its command line and hands it to execSync
HelperExec ==
    /\ helperRun.stage = "called"
    /\ ~NameIsUndefined(helperRun.target)
    /\ helperRun' = [helperRun EXCEPT !.stage = "running",
                        !.executed = Append(@, Execution(helperRun.target))]
    /\ UNCHANGED <<handlerVars, quoteRun, earlier, pending>>

\* execSync returns or throws and the helper returns or rethrows
HelperFinish(o) ==
    /\ helperRun.stage = "running"
    /\ helperRun' = [helperRun EXCEPT !.stage = "done", !.outcome = o,
                        !.result = CallResult(helperRun.target, o)]
    /\ UNCHANGED <<handlerVars, quoteRun, earlier, pending>>

NextHelper ==
    \/ HelperFault
    \/ HelperExec
    \/ \E o \in Outcomes("") : HelperFinish(o)

SpecHelper == InitHelper /\ [][NextHelper]_vars

InitQuote ==
    /\ Init!1 /\ Init!2 /\ Init!3 /\ Init!4 /\ Init!5 /\ Init!6 /\ Init!7 /\ Init!8
    /\ helperRun = Nothing
    /\ earlier = Nothing /\ pending = <<>>
    /\ quoteRun \in
        {[stage |-> "raw", raw |-> s, quoted |-> <<>>] :
            s \in StringsUpTo(QuoteAlphabet, MaxQuoteLen)}

\* the string is quoted
ApplyQuote ==
    /\ quoteRun.stage = "raw"
    /\ quoteRun' = [quoteRun EXCEPT !.stage = "quoted", !.quoted = Quoted(quoteRun.raw)]
    /\ UNCHANGED <<handlerVars, helperRun, earlier, pending>>

NextQuote == ApplyQuote

SpecQuote == InitQuote /\ [][NextQuote]_vars

\* ------------------------------------------------------------------------
\* How a POSIX shell reads a command line (quoting, XCU 2.2, and word
\* splitting): the words of a command line that is one simple command of
\* literal words, or ok = FALSE when the line is anything else (an operator,
\* an expansion, a second command, an unterminated quote)
\* ------------------------------------------------------------------------
\* characters that are not literal outside quotes
ShellSpecial ==
    {";", "|", "&", "$", Backtick, "\n", "(", ")", "<", ">", "*", "?", "#", "~"}

NotLiteral == [ok |-> FALSE, words |-> <<>>]

RECURSIVE ShellRead(_, _, _, _, _, _)
\* line[i..] read in the given mode, cur being the word under way (inWord
\* tells an empty word from no word) and words the words already complete
ShellRead(line, i, mode, cur, inWord, words) ==
    IF i > Len(line)
    THEN IF mode # "plain" THEN NotLiteral
         ELSE [ok |-> TRUE, words |-> IF inWord THEN Append(words, cur) ELSE words]
    ELSE LET c == line[i] IN
      CASE mode = "single" ->
            IF c = "'" THEN ShellRead(line, i + 1, "plain", cur, TRUE, words)
            ELSE ShellRead(line, i + 1, "single", Append(cur, c), TRUE, words)
        [] mode = "double" ->
            IF c = "\"" THEN ShellRead(line, i + 1, "plain", cur, TRUE, words)
            ELSE IF c \in {"$", Backtick} THEN NotLiteral
            ELSE IF c = "\\" /\ i < Len(line)
                    /\ line[i + 1] \in {"$", Backtick, "\"", "\\", "\n"}
            THEN IF line[i + 1] = "\n"
                 THEN ShellRead(line, i + 2, "double", cur, TRUE, words)
                 ELSE ShellRead(line, i + 2, "double", Append(cur, line[i + 1]), TRUE, words)
            ELSE ShellRead(line, i + 1, "double", Append(cur, c), TRUE, words)
        [] OTHER ->
            IF c = "'" THEN ShellRead(line, i + 1, "single", cur, TRUE, words)
            ELSE IF c = "\"" THEN ShellRead(line, i + 1, "double", cur, TRUE, words)
            ELSE IF c = "\\"
            THEN IF i = Len(line) THEN NotLiteral
                 ELSE IF line[i + 1] = "\n"
                 THEN ShellRead(line, i + 2, "plain", cur, inWord, words)
                 ELSE ShellRead(line, i + 2, "plain", Append(cur, line[i + 1]), TRUE, words)
            ELSE IF c \in {" ", "\t"}
            THEN ShellRead(line, i + 1, "plain", <<>>, FALSE,
                           IF inWord THEN Append(words, cur) ELSE words)
            ELSE IF c \in ShellSpecial THEN NotLiteral
            ELSE ShellRead(line, i + 1, "plain", Append(cur, c), TRUE, words)

\* the words a shell executes for the command line
ShellWords(line) == ShellRead(line, 1, "plain", <<>>, FALSE, <<>>)

\* a simple command of exactly these literal words
Literally(words) == [ok |-> TRUE, words |-> words]

\* ------------------------------------------------------------------------
\* Properties
\* ------------------------------------------------------------------------
\* the ten operations of the protocol boundary
TenOperations ==
    {"home_open", "home_run_scene", "home_control_device", "home_list_shortcuts",
     "home_lights_on", "home_lights_off", "home_set_thermostat", "home_lock_doors",
     "home_unlock_doors", "home_get_status"}

QuickActions ==
    {"home_run_scene", "home_lights_on", "home_lights_off", "home_set_thermostat",
     "home_lock_doors", "home_unlock_doors"}

HardErrorOperations ==
    {"home_open", "home_control_device", "home_list_shortcuts", "home_get_status"}

\* the external command of the current call has failed
CommandFailed == outcome # Nothing /\ ~outcome.ok

\* the failure diagnostic: the error stream when present and non-empty, the
\* generic message otherwise
ErrorStreamOrMessage(o) ==
    IF o.stderr # Undefined /\ o.stderr.chars # <<>> THEN o.stderr.chars ELSE o.message

IsErrorAbsent == "isError" \notin DOMAIN response
IsErrorTrue == "isError" \in DOMAIN response /\ response.isError = TRUE
ResponseText == response.content[1].text

\* s begins with / ends with t
StartsWith(s, t) == Len(t) <= Len(s) /\ SubSeq(s, 1, Len(t)) = t
EndsWith(s, t) == Len(t) <= Len(s) /\ SubSeq(s, Len(s) - Len(t) + 1, Len(s)) = t

\* C1: when the external command of one of the ten operations has failed, the
\* response has isError absent if and only if the operation is a quick
\* action, and isError = true for the four other operations.
C1_FailurePartition ==
    (state = "Responded" /\ CommandFailed /\ request.name \in TenOperations)
    => /\ IsErrorAbsent <=> request.name \in QuickActions
       /\ request.name \in HardErrorOperations => IsErrorTrue

C1_Witness ==
    /\ state = "Responded" /\ CommandFailed
    /\ request.name = "home_run_scene" /\ IsErrorAbsent

\* C2: every handled request has exactly one response once it is answered
\* and none before, and the response's content holds at least one text block.
C2_OneNonEmptyResponse ==
    /\ responses <= 1
    /\ state = "Responded" <=> responses = 1
    /\ state \in {"Received", "ArgsExtracted", "Invoked", "Classified"}
        => response = Nothing
    /\ state = "Responded"
        => /\ "content" \in DOMAIN response
           /\ Len(response.content) >= 1
           /\ \A i \in 1..Len(response.content) : response.content[i].type = "text"

C2_Witness ==
    /\ state = "Responded" /\ responses = 1
    /\ request.name = "home_list_shortcuts"
    /\ outcome # Nothing /\ outcome.ok
    /\ Len(response.content) = 1
    /\ Head(ResponseText) = "No shortcuts found matching: "

\* C3: the quoted form of any string is read back by a shell as exactly one
\* word, equal to the string.
C3_QuoteRoundTrip ==
    (quoteRun # Nothing /\ quoteRun.stage = "quoted")
    => ShellWords(quoteRun.quoted) = Literally(<<quoteRun.raw>>)

C3_Witness ==
    /\ quoteRun # Nothing /\ quoteRun.stage = "quoted"
    /\ quoteRun.raw = <<"'", "'">>

\* the command line and the words expected of runShortcut(name, input),
\* the input counting as given under the test `given`
ExpectedShortcutLine(name, input, given) ==
    <<"shortcuts", " ", "run", " ">> \o Quoted(name.chars)
        \o (IF given THEN <<" ", "-i", " ">> \o Quoted(input.chars) ELSE <<>>)

ExpectedShortcutWords(name, input, given) ==
    <<<<"shortcuts">>, <<"run">>, name.chars>>
        \o (IF given THEN <<<<"-i">>, input.chars>> ELSE <<>>)

\* runShortcut was called with a string name and has run its command
ShortcutHasRun ==
    /\ helperRun # Nothing
    /\ helperRun.target.helper = "runShortcut"
    /\ helperRun.target.name # Undefined
    /\ helperRun.stage \in {"running", "done"}

ShortcutRunsAs(given) ==
    /\ Len(helperRun.executed) = 1
    /\ helperRun.executed[1].line
        = ExpectedShortcutLine(helperRun.target.name, helperRun.target.input, given)
    /\ ShellWords(helperRun.executed[1].line)
        = Literally(ExpectedShortcutWords(helperRun.target.name,
                                           helperRun.target.input, given))

\* C4, as stated: the -i part is there whenever an input is given.
C4_InputWheneverGiven ==
    ShortcutHasRun => ShortcutRunsAs(helperRun.target.input # Undefined)

\* C4: the command line of runShortcut is "shortcuts run " + quote(name),
\* followed by " -i " + quote(input) when the input is given and not the
\* empty string; a shell reads it as the words shortcuts, run, name (then
\* -i, input) and nothing else.
C4_ShortcutCommandLine ==
    ShortcutHasRun
    => ShortcutRunsAs(helperRun.target.input # Undefined
                      /\ helperRun.target.input.chars # <<>>)

C4_Witness ==
    /\ ShortcutHasRun
    /\ helperRun.target.name = Str(<<"'", ";">>)
    /\ helperRun.target.input = Str(<<" ", "'">>)
    /\ Len(helperRun.executed) = 1

\* C5: a request whose name is none of the ten operations is answered with
\* isError = true and the text "Unknown tool: <name>", straight from Received,
\* and no external command is executed for it.
C5_UnknownTool ==
    (request # Nothing /\ request.name \notin TenOperations)
    => /\ state \in {"Received", "Responded"}
       /\ executed = <<>>
       /\ outcome = Nothing
       /\ state = "Responded"
            => response = [content |-> <<[type |-> "text",
                                          text |-> <<"Unknown tool: ", request.name>>]>>,
                           isError |-> TRUE]

C5_Witness ==
    /\ state = "Responded" /\ request.name = "not_a_real_tool" /\ IsErrorTrue

\* an exception that no policy of the operation resolves: a failed call of
\* home_open or home_get_status, or a fault while reading the arguments
UnresolvedException ==
    /\ result # Nothing /\ result.threw
    /\ \/ request.name \in {"home_open", "home_get_status"}
       \/ /\ request.args = Undefined
          /\ request.name \in TenOperations
                \ {"home_open", "home_get_status", "home_lock_doors", "home_unlock_doors"}

\* C6: an exception no policy resolves is answered by a response with
\* isError = true and the text "Error: " followed by the exception's message;
\* the call ends in a response, nothing escapes.
C6_OuterCatch ==
    /\ UnresolvedException => state \in {"Classified", "Responded"}
    /\ (state = "Responded" /\ UnresolvedException)
        => /\ IsErrorTrue
           /\ Len(response.content) = 1
           /\ ResponseText = <<"Error: ">> \o result.message

C6_Witness ==
    /\ state = "Responded" /\ UnresolvedException
    /\ request.name = "home_get_status" /\ CommandFailed

\* the text of a failed home_control_device begins
\* Error running shortcut "<name>": and ends with the diagnostic
DeviceErrorForm ==
    /\ StartsWith(ResponseText,
            <<"Error running shortcut ", "\"">>
                \o request.args.props.shortcutName.chars \o <<"\"", ": ">>)
    /\ EndsWith(ResponseText, ErrorStreamOrMessage(outcome))

\* a hard-error response whose text contains the diagnostic verbatim
HardErrorWithDiagnostic ==
    /\ IsErrorTrue
    /\ Includes(ResponseText, ErrorStreamOrMessage(outcome))
    /\ request.name = "home_control_device" => DeviceErrorForm

\* C7, as stated: all four hard-error operations embed the diagnostic.
C7_AllFourEmbedDiagnostic ==
    (state = "Responded" /\ CommandFailed /\ request.name \in HardErrorOperations)
    => HardErrorWithDiagnostic

\* C7: a failed home_open, home_control_device or home_get_status answers
\* isError = true with a text that contains the diagnostic verbatim; a failed
\* home_list_shortcuts answers isError = true with the fixed text "Error
\* listing shortcuts. Make sure Shortcuts app is available.", which does not
\* carry the diagnostic.
C7_HardErrorText ==
    (state = "Responded" /\ CommandFailed)
    => /\ request.name \in {"home_open", "home_control_device", "home_get_status"}
            => HardErrorWithDiagnostic
       /\ request.name = "home_list_shortcuts"
            => /\ IsErrorTrue
               /\ ResponseText
                    = <<"Error listing shortcuts. Make sure Shortcuts app is available.">>
               /\ ~Includes(ResponseText, ErrorStreamOrMessage(outcome))

C7_Witness ==
    /\ state = "Responded" /\ CommandFailed
    /\ request.name = "home_control_device"
    /\ outcome.stderr = Str(<<"Permission", " ", "denied">>)
    /\ IsErrorTrue

\* the prefix each helper puts before the diagnostic
HelperPrefix(helper) ==
    IF helper = "runAppleScript" THEN <<"AppleScript error: ">> ELSE <<"Shortcut error: ">>

\* C8: when the command of runAppleScript or runShortcut fails, the error the
\* helper raises carries the error stream when it is present and non-empty,
\* and the generic message otherwise.
C8_DiagnosticPrefersErrorStream ==
    (helperRun # Nothing /\ helperRun.stage = "done"
        /\ helperRun.outcome # Nothing /\ ~helperRun.outcome.ok)
    => /\ helperRun.result.threw
       /\ helperRun.result.message
            = HelperPrefix(helperRun.target.helper)
                \o ErrorStreamOrMessage(helperRun.outcome)

C8_Witness ==
    /\ helperRun # Nothing /\ helperRun.stage = "done"
    /\ helperRun.outcome # Nothing /\ ~helperRun.outcome.ok
    /\ helperRun.outcome.stderr = Str(<<"Permission", " ", "denied">>)
    /\ helperRun.result.threw

\* home_set_thermostat was called with a temperature
ThermostatCall ==
    /\ request # Nothing /\ request.name = "home_set_thermostat"
    /\ request.args # Undefined
    /\ request.args.props.temperature # Undefined

\* the decimal notation of the temperatures the model draws
DecimalOf(t) ==
    CASE t = 0 -> <<"0">>
      [] t = 22 -> <<"2", "2">>
      [] t = 72 -> <<"7", "2">>
      [] t = 0 - 4 -> <<"-", "4">>
      [] t = 105 -> <<"1", "0", "5">>

\* the caller's number and the caller's unit, "fahrenheit" when absent
CallerTemperature == DecimalOf(request.args.props.temperature.num)
CallerUnit ==
    IF request.args.props.unit = Undefined THEN <<"fahrenheit">>
    ELSE request.args.props.unit.chars
CallerUnitLetter == IF CallerUnit = <<"celsius">> THEN "C" ELSE "F"

LightsCall ==
    /\ request # Nothing /\ request.name \in {"home_lights_on", "home_lights_off"}
    /\ request.args # Undefined

CallerRoom == request.args.props.room
OnOrOff == IF request.name = "home_lights_on" THEN "On" ELSE "Off"
OnOrOffLower == IF request.name = "home_lights_on" THEN "on" ELSE "off"

\* the automation and the voice phrasing of a lights call, withRoom telling
\* whether the call counts as made with a room
RoomAutomation(withRoom) ==
    IF withRoom THEN CallerRoom.chars \o <<" ", "Lights", " ", OnOrOff>>
    ELSE <<"Lights", " ", OnOrOff>>

RoomPhrase(withRoom) ==
    IF withRoom THEN <<"turn", " ", OnOrOffLower, " ">> \o CallerRoom.chars \o <<" ", "lights">>
    ELSE <<"turn", " ", OnOrOffLower, " ", "the", " ", "lights">>

LightsRunAs(withRoom) ==
    /\ state \in {"Invoked", "Classified", "Responded"}
        => /\ Len(executed) = 1
           /\ ShellWords(executed[1].line)
                = Literally(<<<<"shortcuts">>, <<"run">>, RoomAutomation(withRoom)>>)
    /\ (state = "Responded" /\ CommandFailed)
        => /\ IsErrorAbsent
           /\ Includes(ResponseText,
                <<"Shortcut named ", "\"">> \o RoomAutomation(withRoom) \o <<"\"">>)
           /\ EndsWith(ResponseText,
                <<"you can say to Siri: ", "\"">> \o RoomPhrase(withRoom) \o <<"\"">>)

\* C10, as stated: every room argument r, the empty string too, is part of
\* the automation name and of the phrasing.
C10_EveryRoomQualifies == LightsCall => LightsRunAs(CallerRoom # Undefined)

\* C10: with a room r that is not the empty string the automation run is
\* "<r> Lights On" (Off), r verbatim, and a failure's guidance names that
\* automation and the phrasing "turn on (off) <r> lights"; with no room, or
\* with the empty string as room, the automation is "Lights On" (Off) and the
\* phrasing "turn on (off) the lights".
C10_RoomQualifiedLights ==
    LightsCall => LightsRunAs(CallerRoom # Undefined /\ CallerRoom.chars # <<>>)

C10_Witness ==
    /\ LightsCall /\ state = "Responded" /\ CommandFailed
    /\ request.name = "home_lights_on"
    /\ CallerRoom = Str(<<" ", "A">>)
    /\ IsErrorAbsent

\* a home_list_shortcuts call with an arguments object whose enumeration
\* command succeeded and which has been answered
ListingAnswered ==
    /\ state = "Responded" /\ request.name = "home_list_shortcuts"
    /\ request.args # Undefined
    /\ outcome # Nothing /\ outcome.ok

CallerFilter == request.args.props.filter

\* the lines listed in the response: what follows the header line
ListedLines ==
    IF Head(ResponseText) = "Available Shortcuts:"
    THEN SplitLines(SubSeq(ResponseText, 3, Len(ResponseText)))
    ELSE <<>>

\* s contains f, letter case disregarded on both sides
ContainsIgnoringCase(s, f) ==
    \E i \in 0..(Len(s) - Len(f)) :
        \A j \in 1..Len(f) : ToLowerChar(s[i + j]) = ToLowerChar(f[j])

\* the lines of the enumeration output that the listing is to keep, in
\* their order and as written, the filter applying under `withFilter`
ExpectedKept(withFilter) ==
    LET Wanted(s) ==
            /\ \E i \in 1..Len(s) : s[i] \notin WhiteSpace
            /\ IF withFilter THEN ContainsIgnoringCase(s, CallerFilter.chars)
               ELSE \E k \in HomeKeywords : ContainsIgnoringCase(s, k)
    IN  SelectSeq(SplitLines(outcome.stdout), Wanted)

\* C11 as stated: the caller's filter selects the lines whenever a filter
\* argument is given, the empty string included.
C11_FilterWheneverGiven ==
    ListingAnswered => ListedLines = ExpectedKept(CallerFilter # Undefined)

\* C11: home_list_shortcuts lists exactly the non-blank lines of the
\* enumeration output, in order and unchanged, that contain the filter
\* case-insensitively when a non-empty filter is given, and that contain
\* one of the seven keywords case-insensitively when the filter is absent
\* or the empty string.
C11_KeptLines ==
    ListingAnswered
    => ListedLines
        = ExpectedKept(CallerFilter # Undefined /\ CallerFilter.chars # <<>>)

C11_Witness ==
    /\ ListingAnswered
    /\ outcome.stdout = CatalogueMixed
    /\ CallerFilter = Str(<<"o">>)
    /\ ListedLines
        = << <<"H", "O", "M", "E", " ">>, <<"z", "o", "o">>,
             <<" ", "b", "e", "d", "R", "O", "O", "M">> >>

\* the caller gave a filter that is not the empty string
NonEmptyFilter == CallerFilter # Undefined /\ CallerFilter.chars # <<>>

\* the lines the listing keeps
KeptLines == ExpectedKept(NonEmptyFilter)

NoHomeRelatedText ==
    <<"No Home-related shortcuts found. Create Shortcuts in the Shortcuts app to control your Home devices.">>

\* the text of a successful listing, the "matching" form of the empty
\* result being the one used under `withFilter`
ListingTextAs(withFilter) ==
    /\ IsErrorAbsent
    /\ Len(response.content) = 1
    /\ IF KeptLines = <<>>
       THEN IF withFilter
            THEN StartsWith(ResponseText, <<"No shortcuts found matching: ">>)
            ELSE ResponseText = NoHomeRelatedText
       ELSE ResponseText = <<"Available Shortcuts:", "\n">> \o JoinLines(KeptLines)

\* C12 as stated: an empty result is answered with "No shortcuts found
\* matching: ..." whenever a filter argument is given, the empty string
\* included.
C12_MatchingWheneverGiven ==
    ListingAnswered => ListingTextAs(CallerFilter # Undefined)

\* C12: a successful home_list_shortcuts never has isError set; with no line
\* kept its text is "No shortcuts found matching: " followed by the
\* lower-cased filter when a non-empty filter is given and the "No
\* Home-related shortcuts found. ..." message when the filter is absent or
\* empty; with a line kept it is "Available Shortcuts:", a newline and the
\* kept lines joined by newlines.
C12_ListingText ==
    ListingAnswered
    => /\ ListingTextAs(NonEmptyFilter)
       /\ (NonEmptyFilter /\ KeptLines = <<>>)
            => Tail(ResponseText)
                = [i \in 1..Len(CallerFilter.chars) |-> ToLowerChar(CallerFilter.chars[i])]

C12_Witness ==
    /\ ListingAnswered
    /\ CallerFilter = Str(<<"O", "C">>)
    /\ outcome.stdout = <<"M", "i", "s", "c">>
    /\ IsErrorAbsent
    /\ ResponseText = <<"No shortcuts found matching: ", "o", "c">>

\* C14: handling one request executes at most one external command: none
\* for an unknown name, and exactly one, never a second, once a command of
\* one of the ten operations has succeeded or failed, up to and including
\* the response (a quick action's fallback included).
C14_NoRetry ==
    /\ Len(executed) <= 1
    /\ (state # "Idle" /\ request.name \notin KnownTools) => executed = <<>>
    /\ state = "Invoked" => Len(executed) = 1
    /\ outcome # Nothing
        => /\ request.name \in TenOperations
           /\ Len(executed) = 1
           /\ executed[1] = Execution(Target(request.name, view))

C14_Witness ==
    /\ state = "Responded" /\ CommandFailed
    /\ request.name = "home_lock_doors"
    /\ IsErrorAbsent
    /\ Len(executed) = 1

\* C15: every external command the handler executes, the enumeration
\* command of home_list_shortcuts included, is run with utf-8 decoding and
\* an output ceiling of 50 MiB.
C15_EveryCommandBuffered ==
    \A i \in 1..Len(executed) :
        /\ executed[i].options.encoding = "utf-8"
        /\ executed[i].options.maxBuffer = Num(50 * 1024 * 1024)

\* a call of an operation other than home_list_shortcuts whose command
\* succeeded and which has been answered
SuccessAnswered ==
    /\ state = "Responded"
    /\ request.name \in TenOperations \ {"home_list_shortcuts"}
    /\ outcome # Nothing /\ outcome.ok

\* the confirmation text of the call, from its name and arguments; an
\* optional argument that is the empty string counts as given under
\* `emptyCounts`
ConfirmationText(emptyCounts) ==
    LET Given(v) == v # Undefined /\ (emptyCounts \/ v.chars # <<>>)
        a == request.args.props
    IN  CASE request.name = "home_open" -> <<"Home app opened">>
          [] request.name = "home_run_scene" -> <<"Activated scene: ">> \o a.scene.chars
          [] request.name = "home_control_device" ->
                <<"Executed shortcut: ">> \o a.shortcutName.chars
                    \o (IF Given(a.action) THEN <<" with action: ">> \o a.action.chars
                        ELSE <<>>)
          [] request.name \in {"home_lights_on", "home_lights_off"} ->
                <<"Lights ", OnOrOffLower>>
                    \o (IF Given(a.room) THEN <<" in ">> \o a.room.chars ELSE <<>>)
          [] request.name = "home_lock_doors" -> <<"Doors locked">>
          [] request.name = "home_unlock_doors" -> <<"Doors unlocked">>
          [] request.name = "home_get_status" ->
                <<"Home app opened. Note: HomeKit device status is not accessible via AppleScript. View status in the Home app.">>

\* the success response: no isError, one text block that holds nothing of
\* what the command printed and, for the operations with a fixed
\* confirmation, the confirmation text
ConfirmedAs(emptyCounts) ==
    /\ IsErrorAbsent
    /\ Len(response.content) = 1
    /\ Trim(outcome.stdout) # <<>> => ~Includes(ResponseText, Trim(outcome.stdout))
    /\ request.name # "home_set_thermostat"
        => ResponseText = ConfirmationText(emptyCounts)

\* C18 as stated: " with action: <action>" and " in <room>" are appended
\* whenever the argument is given, the empty string included.
C18_AppendedWheneverGiven == SuccessAnswered => ConfirmedAs(TRUE)

\* C18: on a success outcome each operation other than home_list_shortcuts
\* answers with isError absent and a text that holds nothing of the
\* command's output; the text is the operation's fixed confirmation, with
\* " with action: <action>" and " in <room>" appended when the argument is
\* given and is not the empty string.
C18_Confirmation == SuccessAnswered => ConfirmedAs(FALSE)

C18_Witness ==
    /\ SuccessAnswered
    /\ request.name = "home_control_device"
    /\ request.args.props.action = Str(<<"A", "'">>)
    /\ outcome.stdout = <<" ", "o", "k", "\n">>
    /\ ResponseText
        = <<"Executed shortcut: ", "A", " with action: ", "A", "'">>

\* C19: a call of one of the ten operations steps through Received,
\* ArgsExtracted, Invoked, Classified, Responded in that order, only an
\* unmatched name goes from Received directly to Responded, and a known
\* operation is answered only after its external command has finished.
C19_StepsInOrder ==
    /\ []((state = "Responded" /\ request.name \in TenOperations)
            => (Len(executed) = 1 /\ outcome # Nothing))
    /\ [][
          /\ (state = "Received")
                => (state' = IF request.name \in TenOperations
                             THEN "ArgsExtracted" ELSE "Responded")
          /\ (state = "ArgsExtracted") => (state' = "Invoked")
          /\ (state = "Invoked") => (state' = "Classified")
          /\ (state = "Classified") => (state' = "Responded")
       ]_vars

\* C20: a quick action is never answered with isError set, whatever the
\* arguments object (absent, empty, missing a field) and whatever the
\* outcome of the command.
C20_QuickActionNeverHardError ==
    (state = "Responded" /\ request.name \in QuickActions) => IsErrorAbsent

\* the call being answered is the earlier call over again: the same name,
\* the same arguments and the same outcome of its command
SameCallAgain ==
    /\ state = "Responded"
    /\ earlier # Nothing
    /\ earlier.request = request
    /\ earlier.outcome = outcome

Busy == state \in {"Received", "ArgsExtracted", "Invoked", "Classified"}

\* the external commands launched and not finished
RunningCommands == Len(executed) - (IF outcome = Nothing THEN 0 ELSE 1)

\* C16: requests are handled one at a time to completion: while a request
\* is being handled every step is a step of that request, whatever other
\* requests the transport has read meanwhile, and at most one external
\* command is running at any moment.
C16_OneAtATime ==
    /\ [](RunningCommands \in {0, 1})
    /\ [](RunningCommands = 1 <=> state = "Invoked")
    /\ [][
          Busy => /\ request' = request
                  /\ (state' # state)
                        => (state' \notin {"Idle", "Received"} /\ pending' = pending)
       ]_vars

C16_Witness ==
    /\ state = "Invoked"
    /\ RunningCommands = 1
    /\ Len(pending) = 2
    /\ pending[1].name = "home_lock_doors"

\* C17: given that every launched command exits, every received request
\* reaches Responded; Responded ends the call, with its one response
\* unchanged to the end; and a call whose command is running has no
\* response and can only wait for the command to exit, there being no
\* timeout and no cancellation.
C17_EventuallyResponded ==
    /\ (state = "Received") ~> (state = "Responded")
    /\ [](state = "Invoked" => response = Nothing)
    /\ [][
          /\ (state = "Responded") => (state' = "Idle")
          /\ (state = "Invoked")
                => (state' = "Classified" /\ outcome' # Nothing /\ response' = Nothing)
       ]_vars

C17_Witness ==
    /\ state = "Responded"
    /\ request.name = "home_get_status"
    /\ CommandFailed
    /\ IsErrorTrue

\* the command line of home_open and home_get_status, written out
FixedAppleScriptLine ==
    <<"osascript", " ", "-e", " ", "'", "tell", " ", "application", " ", "\"",
      "Home", "\"", " ", "to", " ", "activate", "'">>

\* the script a shell hands to osascript for that line
FixedAppleScript ==
    <<"tell", " ", "application", " ", "\"", "Home", "\"", " ", "to", " ", "activate">>

\* C21: whatever the arguments of home_open and home_get_status, the one
\* command line executed is osascript -e followed by the quoted literal
\* script tell application "Home" to activate, which a shell reads as these
\* three words.
C21_FixedAppleScript ==
    (state # "Idle" /\ request.name \in {"home_open", "home_get_status"})
    => /\ state \in {"Received", "ArgsExtracted"} => executed = <<>>
       /\ state \in {"Invoked", "Classified", "Responded"}
            => /\ Len(executed) = 1
               /\ executed[1].line = FixedAppleScriptLine
               /\ ShellWords(executed[1].line)
                    = Literally(<<<<"osascript">>, <<"-e">>, FixedAppleScript>>)

C21_Witness ==
    /\ state = "Invoked"
    /\ request.name = "home_get_status"
    /\ request.args = Obj([script |-> Str(<<"'", "A">>)])
    /\ executed[1].line = FixedAppleScriptLine

\* a quick action whose external command has failed and which has been
\* answered
QuickActionFailed ==
    /\ state = "Responded"
    /\ request.name \in QuickActions
    /\ CommandFailed

\* the automation name the runner was given: the third word a shell reads
\* from the failed command line
RunnerName == ShellWords(executed[1].line).words[3]

\* the positions of the double quotes of a text
QuotePositions(text) == {i \in 1..Len(text) : text[i] = "\""}

\* what a text holds between its first and its second double quote
FirstQuoted(text) ==
    LET q1 == CHOOSE i \in QuotePositions(text) :
                \A j \in QuotePositions(text) : i <= j
        q2 == CHOOSE i \in QuotePositions(text) \ {q1} :
                \A j \in QuotePositions(text) \ {q1} : i <= j
    IN  SubSeq(text, q1 + 1, q2 - 1)

\* the earlier call noted was the same request and its command failed too
FailedBefore ==
    /\ earlier # Nothing
    /\ earlier.request = request
    /\ earlier.outcome # Nothing /\ ~earlier.outcome.ok

\* C22: the guidance of a quick action whose command failed has isError
\* absent, names between its first double quotes exactly the automation the
\* failed command ran, holds nothing of the failure diagnostic, and is the
\* same text for every failure of the same request.
C22_GuidanceNamesAutomation ==
    QuickActionFailed
    => /\ IsErrorAbsent
       /\ ShellWords(executed[1].line).ok
       /\ FirstQuoted(ResponseText) = RunnerName
       /\ ~Includes(ResponseText, ErrorStreamOrMessage(outcome))
       /\ FailedBefore => response = earlier.response

C22_Witness ==
    /\ QuickActionFailed
    /\ request.name = "home_lights_off"
    /\ request.args.props.room = Str(<<"A", "'">>)
    /\ FailedBefore /\ earlier.outcome # outcome
    /\ FirstQuoted(ResponseText) = <<"A", "'", " ", "Lights", " ", "Off">>

\* a successful listing called with a filter argument, whatever the string
FilteredListing == ListingAnswered /\ CallerFilter # Undefined

\* the non-blank lines of the output that satisfy Wanted, in their order
NonBlankLinesWith(Wanted(_)) ==
    LET Keep(s) == (\E i \in 1..Len(s) : s[i] \notin WhiteSpace) /\ Wanted(s)
    IN  SelectSeq(SplitLines(outcome.stdout), Keep)

\* the non-blank lines that contain the supplied filter
LinesWithFilter ==
    LET HasFilter(s) == ContainsIgnoringCase(s, CallerFilter.chars)
    IN  NonBlankLinesWith(HasFilter)

\* the non-blank lines that contain one of the keywords
LinesWithKeyword ==
    LET HasKeyword(s) == \E k \in HomeKeywords : ContainsIgnoringCase(s, k)
    IN  NonBlankLinesWith(HasKeyword)

\* C23 as stated: a supplied filter, the empty string included, replaces the
\* keyword set, so an empty-string filter lists every non-blank line.
C23_SuppliedFilterReplacesKeywords ==
    FilteredListing => ListedLines = LinesWithFilter

\* C23: a supplied filter that is not the empty string replaces the keyword
\* set (the lines listed are exactly the non-blank lines containing it
\* case-insensitively); an empty-string filter is treated as absent and
\* lists the keyword lines.
C23_NonEmptyFilterReplacesKeywords ==
    FilteredListing
    => ListedLines
        = IF CallerFilter.chars # <<>> THEN LinesWithFilter ELSE LinesWithKeyword

C23_Witness ==
    /\ FilteredListing
    /\ CallerFilter = Str(<<"i", "s">>)
    /\ outcome.stdout = Catalogue
    /\ ListedLines = << <<"M", "i", "s", "c">> >>
    /\ LinesWithKeyword = << <<"L", "o", "c", "k">>, <<"D", "o", "o", "r">> >>

\* home_control_device has run its command
DeviceCommandRun ==
    /\ state \in {"Invoked", "Classified", "Responded"}
    /\ request.name = "home_control_device"
    /\ Len(executed) = 1

\* and the command has succeeded and the call has been answered
DeviceSucceeded == state = "Responded" /\ outcome # Nothing /\ outcome.ok

CallerAction == request.args.props.action

\* the words a shell reads from the command of the call
DeviceWords == ShellWords(executed[1].line).words

\* the command carries the action as the input of the automation
HasInputPart ==
    /\ Len(DeviceWords) = 5
    /\ DeviceWords[4] = <<"-i">>
    /\ DeviceWords[5] = CallerAction.chars

\* the success text ends with the action suffix
HasActionSuffix == EndsWith(ResponseText, <<" with action: ">> \o CallerAction.chars)

\* C24: for home_control_device the command has the input part -i <action>
\* exactly when the success text ends with " with action: <action>": an
\* absent or empty-string action gives three words and no suffix, any other
\* action gives both.
C24_InputPartIffSuffix ==
    DeviceCommandRun
    => /\ ShellWords(executed[1].line).ok
       /\ IF CallerAction # Undefined /\ CallerAction.chars # <<>>
          THEN /\ HasInputPart
               /\ DeviceSucceeded => HasActionSuffix
          ELSE /\ Len(DeviceWords) = 3
               /\ DeviceSucceeded
                    => /\ ~Includes(ResponseText, <<" with action: ">>)
                       /\ ResponseText
                            = <<"Executed shortcut: ">> \o request.args.props.shortcutName.chars

C24_Witness ==
    /\ DeviceCommandRun
    /\ DeviceSucceeded
    /\ CallerAction = Str(<<>>)
    /\ Len(DeviceWords) = 3
    /\ ResponseText = <<"Executed shortcut: ", "A", "'">>

====
